---- MODULE Spec2Model ----
(***************************************************************************)
(* A model of aya's load pipeline (BpfLoader::load), of the Bpf registry   *)
(* it returns (map/program lookup, take_map/return_map), of SkSkb::load    *)
(* and SkSkb::attach, and of the kernel state they act on (file            *)
(* descriptors, pinned objects and attachments).                           *)
(***************************************************************************)
EXTENDS Integers, Sequences, FiniteSets, TLC

VARIABLES
    loader,   \* BpfLoader { btf, map_pin_path }
    pc,       \* position of the caller: "idle" or a step of BpfLoader::load
    input,    \* the Object as Object::parse returned it (kept until the next call)
    obj,      \* the local `obj` of load: maps and programs not yet drained
    maps,     \* the local `maps` HashMap of load
    cur,      \* the local `map` of the loop body of load
    bpf,      \* the Bpf value the caller owns, if any
    held,     \* the (name, map) pairs the caller owns after take_map
    fds,      \* kernel: open file descriptor -> kernel map object
    pins,     \* kernel: <<base path, map name>> -> pinned kernel map object
    loads,    \* how many times load was called
    trace,    \* history: the steps of the load call that runs or has just returned
    last,     \* history: the last API call and its result
    prog_fds, \* kernel: the open file descriptors of loaded programs
    links,    \* the Links the caller owns, in the order attach returned them
    attached, \* kernel: the programs attached to maps
    syscalls, \* history: the attach syscalls the last SkSkb::attach call issued
    contents  \* kernel: kernel map object -> its element at key 0

vars == <<loader, pc, input, obj, maps, cur, bpf, held, fds, pins, loads, trace, last,
          prog_fds, links, attached, syscalls, contents>>

----------------------------------------------------------------------------
(* Bounds *)

\* how many times the caller calls load
MaxLoads == 2

\* how many maps the caller may hold outside a Bpf at once
MaxHeld == 1

\* the largest number of possible CPUs the topology reports
MaxCpus == 2

----------------------------------------------------------------------------
(* Values *)

\* Option<RawFd>::None
NoneFd == -1

PinningType == {"None", "ByName"}

BPF_MAP_TYPE_PERF_EVENT_ARRAY == "PERF_EVENT_ARRAY"

\* the pin base paths a caller may configure; "" is Option::None
PinPaths == {"/sys/fs/bpf/my-program"}
NoPath == ""

EmptyFn == [x \in {} |-> x]

MapDef(t, n, p) == [map_type |-> t, max_entries |-> n, pinning |-> p]

MapObj(d, bytes) == [def |-> d, data |-> bytes]

\* the objects the external parser may hand to load
Objects ==
    { [ maps |-> ("m1" :> MapObj(MapDef("HASH", 4, "ByName"), <<7>>))
              @@ (".bss" :> MapObj(MapDef("ARRAY", 1, "None"), <<0>>)),
        programs |-> ("p1" :> "SkSkbStreamVerdict") ],
      [ maps |-> ("m1" :> MapObj(MapDef(BPF_MAP_TYPE_PERF_EVENT_ARRAY, 0, "None"), <<>>))
              @@ ("m2" :> MapObj(MapDef(BPF_MAP_TYPE_PERF_EVENT_ARRAY, 4, "ByName"), <<>>))
              @@ ("m3" :> MapObj(MapDef("ARRAY", 1, "None"), <<5>>)),
        programs |-> ("p1" :> "SkSkbStreamParser") @@ ("p2" :> "KProbe") ],
      [ maps |-> EmptyFn,
        programs |-> ("p2" :> "CgroupSkbIngress") ] }

\* ProgramSection: the section kinds the parser gives a program
Sections ==
    {"KProbe", "KRetProbe", "UProbe", "URetProbe", "TracePoint", "SocketFilter", "Xdp",
     "SkMsg", "SkSkbStreamParser", "SkSkbStreamVerdict", "SockOps", "SchedClassifier",
     "CgroupSkbIngress", "CgroupSkbEgress", "LircMode2", "PerfEvent", "RawTracePoint",
     "Lsm", "BtfTracePoint"}

\* objects with one map and two programs, of every pair of section kinds
SectionObjects ==
    { [ maps |-> ("m3" :> MapObj(MapDef("ARRAY", 1, "None"), <<5>>)),
        programs |-> ("p1" :> s1) @@ ("p2" :> s2) ] : s1, s2 \in Sections }

\* the names the caller asks the Bpf for: those of the objects and one that no
\* object declares
MapNames == UNION {DOMAIN o.maps : o \in Objects} \cup {"other_map"}
ProgramNames == UNION {DOMAIN o.programs : o \in Objects} \cup {"other_program"}

EmptyObj == [maps |-> EmptyFn, programs |-> EmptyFn]

NoMap == [obj |-> MapObj(MapDef("", 0, "None"), <<>>), fd |-> NoneFd, pinned |-> FALSE]
NoCur == [live |-> FALSE, name |-> "", map |-> NoMap]

NoBpf == [present |-> FALSE, maps |-> EmptyFn, programs |-> EmptyFn]

\* a step of load: the call, the map it is about, whether it succeeded, the
\* descriptor it gave or used, for possible_cpus the number of CPUs and, for a
\* syscall on the map's contents, its key, value and flags and the element
\* that was at the key before
Ev(op, name, ok, fd) ==
    [op |-> op, name |-> name, ok |-> ok, fd |-> fd, n |-> 0, args |-> <<>>,
     was |-> <<>>]

\* the record of an API call: its result, the Bpf before it (pre), the handle of
\* the map it moved (fd) and, for a return_map that directly follows the
\* take_map of the same name and map (rt), the Bpf before that take_map
Call(op, name, res) ==
    [op |-> op, name |-> name, res |-> res, pre |-> bpf, fd |-> NoneFd, rt |-> FALSE,
     pre_take |-> NoBpf]

----------------------------------------------------------------------------
(* Kernel *)

Range(f) == {f[x] : x \in DOMAIN f}

\* the kernel hands out the lowest free descriptor
LowestFree(S) == CHOOSE n \in 0..Cardinality(S) : n \notin S /\ \A m \in 0..(n - 1) : m \in S

\* maps and programs share the descriptor table of the process
NewFd(fdtab) == LowestFree(DOMAIN fdtab \cup prog_fds)
NewKernelMap(fdtab) == LowestFree(Range(fdtab) \cup Range(pins))

Close(fdtab, S) == [f \in DOMAIN fdtab \ S |-> fdtab[f]]

\* a map holds no element at key 0
NoValue == <<>>

\* the element at key 0 of the kernel map that the descriptor fd refers to
ElementAt0(c, fdtab, fd) ==
    IF fd \in DOMAIN fdtab /\ fdtab[fd] \in DOMAIN c THEN c[fdtab[fd]] ELSE NoValue

\* BPF_MAP_CREATE: the new kernel map is empty
KernelCreate(c, k) == (k :> NoValue) @@ c

\* BPF_MAP_UPDATE_ELEM with key 0 and flags 0 (BPF_ANY): the element at key 0
\* of the kernel map becomes the value, whatever was there
KernelUpdateElem(c, fdtab, fd, value) ==
    IF fd \in DOMAIN fdtab THEN (fdtab[fd] :> value) @@ c ELSE c

----------------------------------------------------------------------------
(* Map *)

\* Drop for Map: the descriptors released when a Map value goes out of scope
MapDrop(m) == IF m.fd # NoneFd THEN {m.fd} ELSE {}

\* the mutant: the Map being built when load returns early is not dropped
ScopeExitLeaksCurrent(ms, c) == UNION {MapDrop(ms[n]) : n \in DOMAIN ms}

\* the descriptors released when load returns early with `?`: the local
\* `maps` and the local `map` of the loop body go out of scope
ScopeExit(ms, c) ==
    UNION {MapDrop(ms[n]) : n \in DOMAIN ms} \cup (IF c.live THEN MapDrop(c.map) ELSE {})

----------------------------------------------------------------------------
(* BpfLoader *)

Init ==
    /\ loader \in [btf : BOOLEAN, map_pin_path : {NoPath}]
    /\ pc = "idle"
    /\ input = EmptyObj
    /\ obj = EmptyObj
    /\ maps = EmptyFn
    /\ cur = NoCur
    /\ bpf = NoBpf
    /\ held = {}
    /\ fds = EmptyFn
    /\ pins = EmptyFn
    /\ loads = 0
    /\ trace = <<>>
    /\ last = [op |-> "new", name |-> "", res |-> "Ok", pre |-> NoBpf, fd |-> NoneFd,
               rt |-> FALSE, pre_take |-> NoBpf]
    /\ prog_fds = {}
    /\ links = <<>>
    /\ attached = {}
    /\ syscalls = <<>>
    /\ contents = EmptyFn

\* BpfLoader::btf(Some(_)) or BpfLoader::btf(None)
Btf(b) ==
    /\ pc = "idle"
    /\ syscalls' = <<>>
    /\ UNCHANGED <<prog_fds, links, attached, contents>>
    /\ ~bpf.present
    /\ loader' = [loader EXCEPT !.btf = b]
    /\ last' = Call("btf", "", "Ok")
    /\ trace' = <<>>
    /\ input' = EmptyObj
    /\ UNCHANGED <<pc, obj, maps, cur, bpf, held, fds, pins, loads>>

\* BpfLoader::map_pin_path(path)
MapPinPath(p) ==
    /\ pc = "idle"
    /\ syscalls' = <<>>
    /\ UNCHANGED <<prog_fds, links, attached, contents>>
    /\ ~bpf.present
    /\ loader' = [loader EXCEPT !.map_pin_path = p]
    /\ last' = Call("map_pin_path", "", "Ok")
    /\ trace' = <<>>
    /\ input' = EmptyObj
    /\ UNCHANGED <<pc, obj, maps, cur, bpf, held, fds, pins, loads>>

\* the mutant: the relocations run before the maps are created
StepAfterRelocatesFirst(step, todo) ==
    CASE step = "parse" -> "relocate_btf"
      [] step = "relocate_btf" -> "relocate_maps"
      [] step = "relocate_maps" -> "relocate_calls"
      [] step = "relocate_calls" -> IF todo = {} THEN "classify" ELSE "maps"
      [] step = "insert" -> IF todo = {} THEN "classify" ELSE "maps"

\* the order of the statements of load: the step that follows `step` when it
\* succeeded; `todo` are the names obj.maps.drain() has not yet yielded
StepAfter(step, todo) ==
    CASE step = "parse" -> "relocate_btf"
      [] step = "relocate_btf" -> IF todo = {} THEN "relocate_maps" ELSE "maps"
      [] step = "insert" -> IF todo = {} THEN "relocate_maps" ELSE "maps"
      [] step = "relocate_maps" -> "relocate_calls"
      [] step = "relocate_calls" -> "classify"

\* the mutant: the error of a failed step is swallowed and load goes on
LoadErrIgnored(e, tr, fdtab, c) ==
    /\ pc' = "classify"
    /\ trace' = tr
    /\ fds' = fdtab
    /\ cur' = NoCur
    /\ UNCHANGED <<loader, obj, maps, bpf, held, pins, last>>

\* `return Err(e)` or `?` inside load: the locals go out of scope and the
\* caller gets the error and no Bpf
LoadErr(e, tr, fdtab, c) ==
    /\ pc' = "idle"
    /\ trace' = tr
    /\ fds' = Close(fdtab, ScopeExit(maps, c))
    /\ obj' = EmptyObj
    /\ maps' = EmptyFn
    /\ cur' = NoCur
    /\ bpf' = NoBpf
    /\ last' = Call("load", "", e)
    /\ UNCHANGED <<loader, held, pins>>

\* load, line 189: Object::parse(data)?
Load(o) ==
    /\ pc = "idle"
    /\ syscalls' = <<>>
    /\ UNCHANGED <<prog_fds, links, attached, contents>>
    /\ ~bpf.present
    /\ loads < MaxLoads
    /\ loads' = loads + 1
    /\ \E ok \in BOOLEAN :
        IF ok
        THEN /\ pc' = StepAfter("parse", DOMAIN o.maps)
             /\ input' = o
             /\ obj' = o
             /\ maps' = EmptyFn
             /\ cur' = NoCur
             /\ trace' = <<Ev("parse", "", TRUE, NoneFd)>>
             /\ last' = Call("load", "", "Pending")
             /\ UNCHANGED <<loader, bpf, held, fds, pins>>
        ELSE /\ input' = EmptyObj
             /\ LoadErr("ParseError", <<Ev("parse", "", FALSE, NoneFd)>>, fds, NoCur)

\* the mutant: the pass runs whether or not the loader has BTF, and fails
\* without it
RelocateBtfUnconditional ==
    /\ pc = "relocate_btf"
    /\ UNCHANGED <<loads, input, prog_fds, links, attached, syscalls, contents>>
    /\ \E ok \in (IF loader.btf THEN BOOLEAN ELSE {FALSE}) :
        IF ok
        THEN /\ pc' = StepAfter("relocate_btf", DOMAIN obj.maps)
             /\ trace' = Append(trace, Ev("relocate_btf", "", TRUE, NoneFd))
             /\ UNCHANGED <<loader, obj, maps, cur, bpf, held, fds, pins, last>>
        ELSE LoadErr("BtfError", Append(trace, Ev("relocate_btf", "", FALSE, NoneFd)),
                     fds, cur)

\* load, lines 191-193: if let Some(btf) = &self.btf { obj.relocate_btf(btf)?; }
RelocateBtf ==
    /\ pc = "relocate_btf"
    /\ UNCHANGED <<loads, input, prog_fds, links, attached, syscalls, contents>>
    /\ IF loader.btf
       THEN \E ok \in BOOLEAN :
            IF ok
            THEN /\ pc' = StepAfter("relocate_btf", DOMAIN obj.maps)
                 /\ trace' = Append(trace, Ev("relocate_btf", "", TRUE, NoneFd))
                 /\ UNCHANGED <<loader, obj, maps, cur, bpf, held, fds, pins, last>>
            ELSE LoadErr("BtfError", Append(trace, Ev("relocate_btf", "", FALSE, NoneFd)),
                         fds, cur)
       ELSE /\ pc' = StepAfter("relocate_btf", DOMAIN obj.maps)
            /\ UNCHANGED <<loader, obj, maps, cur, bpf, held, fds, pins, trace, last>>

\* the mutant: every perf event array is sized by the number of CPUs
NeedsCpuCountAnySize(d) == d.map_type = BPF_MAP_TYPE_PERF_EVENT_ARRAY

\* load, line 197: the map gets the default size
NeedsCpuCount(d) == d.map_type = BPF_MAP_TYPE_PERF_EVENT_ARRAY /\ d.max_entries = 0

\* the mutant: a missing pin path is not noticed
PinPathNeverMissing(d, ld) == FALSE

\* load, lines 211-216: a map pinned by name and no map_pin_path
PinPathMissing(d, ld) == d.pinning = "ByName" /\ ld.map_pin_path = NoPath

\* load, lines 196-216: the loop takes the next map of obj.maps.drain(), sizes
\* a perf event array, builds the Map and looks at its pinning
MapBegin ==
    /\ pc = "maps"
    /\ UNCHANGED <<loads, input, prog_fds, links, attached, syscalls, contents>>
    /\ \E name \in DOMAIN obj.maps :
        LET o == obj.maps[name]
            rest == [n \in DOMAIN obj.maps \ {name} |-> obj.maps[n]]
            built(d) == [live |-> TRUE, name |-> name,
                         map |-> [obj |-> [o EXCEPT !.def = d], fd |-> NoneFd,
                                  pinned |-> FALSE]]
            go(d, tr) ==
                IF PinPathMissing(d, loader)
                THEN LoadErr("NoPinPath", Append(tr, Ev("pin_path", name, FALSE, NoneFd)),
                             fds, built(d))
                ELSE /\ pc' = (IF d.pinning = "ByName" THEN "from_pinned" ELSE "create")
                     /\ cur' = built(d)
                     /\ obj' = [obj EXCEPT !.maps = rest]
                     /\ trace' = tr
                     /\ UNCHANGED <<loader, maps, bpf, held, fds, pins, last>>
        IN  IF NeedsCpuCount(o.def)
            THEN \E n \in 0..MaxCpus :
                 IF n = 0
                 THEN LoadErr("FileError",
                              Append(trace, Ev("possible_cpus", name, FALSE, NoneFd)),
                              fds, NoCur)
                 ELSE go([o.def EXCEPT !.max_entries = n],
                         Append(trace, [Ev("possible_cpus", name, TRUE, NoneFd)
                                            EXCEPT !.n = n]))
            ELSE go(o.def, trace)

\* Map::from_pinned as load uses it: the map holds the descriptor it opened
FromPinnedOk(m, fd) == [m EXCEPT !.fd = fd]

\* the mutant: the map opened from its pin is not marked pinned
OpenedFromPinForgetsFlag(m, fd) == FromPinnedOk(m, fd)

\* load, lines 218-222: Ok(fd) => { map.pinned = true; fd }
OpenedFromPin(m, fd) == [FromPinnedOk(m, fd) EXCEPT !.pinned = TRUE]

\* the mutant: a map whose pin could not be opened is not created
StepAfterOpenSkipsCreate(ok) == "populate"

\* the mutant: the map is created even when its pin was opened
StepAfterOpenAlwaysCreates(ok) == "create"

\* load, lines 218-224: Ok(fd) keeps the opened descriptor, Err(_) goes on to
\* map.create
StepAfterOpen(ok) == IF ok THEN "populate" ELSE "create"

\* load, line 218: map.from_pinned(&name, path); on Err the loop goes on to create
FromPinned ==
    /\ pc = "from_pinned"
    /\ UNCHANGED <<loads, input, prog_fds, links, attached, syscalls, contents>>
    /\ LET at == <<loader.map_pin_path, cur.name>>
       IN \E ok \in BOOLEAN :
            IF ok
            THEN /\ at \in DOMAIN pins
                 /\ LET fd == NewFd(fds)
                    IN /\ fds' = (fd :> pins[at]) @@ fds
                       /\ cur' = [cur EXCEPT !.map = OpenedFromPin(cur.map, fd)]
                       /\ trace' = Append(trace, Ev("from_pinned", cur.name, TRUE, fd))
                 /\ pc' = StepAfterOpen(TRUE)
                 /\ UNCHANGED <<loader, obj, maps, bpf, held, pins, last>>
            ELSE /\ pc' = StepAfterOpen(FALSE)
                 /\ trace' = Append(trace, Ev("from_pinned", cur.name, FALSE, NoneFd))
                 /\ UNCHANGED <<loader, obj, maps, cur, bpf, held, fds, pins, last>>

\* Map::create as load uses it: the map holds the descriptor of the new kernel map
Created(m, fd) == [m EXCEPT !.fd = fd]

\* the mutant: a map created for by-name pinning is not pinned
StepAfterCreateNeverPins(pinning) == "populate"

\* load, lines 223-230: under ByName the created map is pinned next, under None
\* the match is over
StepAfterCreate(pinning) == IF pinning = "ByName" THEN "pin" ELSE "populate"

\* load, lines 224 and 230: map.create(&name)?
Create ==
    /\ pc = "create"
    /\ UNCHANGED <<loads, input, prog_fds, links, attached, syscalls>>
    /\ \E ok \in BOOLEAN :
        IF ok
        THEN LET fd == NewFd(fds)
             IN /\ fds' = (fd :> NewKernelMap(fds)) @@ fds
                /\ contents' = KernelCreate(contents, NewKernelMap(fds))
                /\ cur' = [cur EXCEPT !.map = Created(cur.map, fd)]
                /\ trace' = Append(trace, Ev("create", cur.name, TRUE, fd))
                /\ pc' = StepAfterCreate(cur.map.obj.def.pinning)
                /\ UNCHANGED <<loader, obj, maps, bpf, held, pins, last>>
        ELSE /\ LoadErr("MapError", Append(trace, Ev("create", cur.name, FALSE, NoneFd)),
                        fds, cur)
             /\ UNCHANGED contents

\* Map::pin as load uses it: the pinned map is marked pinned
Pinned(m) == [m EXCEPT !.pinned = TRUE]

\* load, line 225: map.pin(&name, path)?
Pin ==
    /\ pc = "pin"
    /\ UNCHANGED <<loads, input, prog_fds, links, attached, syscalls, contents>>
    /\ LET at == <<loader.map_pin_path, cur.name>>
       IN \E ok \in BOOLEAN :
            IF ok
            THEN /\ at \notin DOMAIN pins
                 /\ pins' = (at :> fds[cur.map.fd]) @@ pins
                 /\ cur' = [cur EXCEPT !.map = Pinned(cur.map)]
                 /\ trace' = Append(trace, Ev("pin", cur.name, TRUE, NoneFd))
                 /\ pc' = "populate"
                 /\ UNCHANGED <<loader, obj, maps, bpf, held, fds, last>>
            ELSE LoadErr("MapError", Append(trace, Ev("pin", cur.name, FALSE, NoneFd)),
                         fds, cur)

\* the mutant: a map that is already pinned keeps the data it has
NeedsInitialDataUnlessPinned(name, m) == m.obj.data # <<>> /\ name # ".bss" /\ ~m.pinned

\* the mutant: the data of the zero-initialized section is written as well
NeedsInitialDataAnyName(name, m) == m.obj.data # <<>>

\* load, line 232: the map's initial data is written
NeedsInitialData(name, m) == m.obj.data # <<>> /\ name # ".bss"

\* the mutant: the map of the zero-initialized section is not kept
InsertSkipsBss(ms, name, m) == IF name = ".bss" THEN ms ELSE (name :> m) @@ ms

\* load, line 241: maps.insert(name, map)
Insert(ms, name, m) == (name :> m) @@ [n \in DOMAIN ms \ {name} |-> ms[n]]

\* load, lines 232-241: bpf_map_update_elem_ptr(fd, &0, data, 0)? when the map
\* has initial data, then maps.insert(name, map)
Populate ==
    /\ pc = "populate"
    /\ UNCHANGED <<loads, input, prog_fds, links, attached, syscalls>>
    /\ LET name == cur.name
           write == NeedsInitialData(name, cur.map)
           update(ok) == [Ev("update_elem", name, ok, cur.map.fd)
                            EXCEPT !.args = <<0, cur.map.obj.data, 0>>,
                                   !.was = ElementAt0(contents, fds, cur.map.fd)]
           tr == IF write THEN Append(trace, update(TRUE)) ELSE trace
       IN \E ok \in (IF ~write THEN {TRUE}
                      ELSE IF cur.map.fd \in DOMAIN fds THEN BOOLEAN ELSE {FALSE}) :
            IF ok
            THEN /\ maps' = Insert(maps, name, cur.map)
                 /\ contents' = IF write
                                 THEN KernelUpdateElem(contents, fds, cur.map.fd,
                                                       cur.map.obj.data)
                                 ELSE contents
                 /\ cur' = NoCur
                 /\ trace' = Append(tr, Ev("insert", name, TRUE, cur.map.fd))
                 /\ pc' = StepAfter("insert", DOMAIN obj.maps)
                 /\ UNCHANGED <<loader, obj, bpf, held, fds, pins, last>>
            ELSE /\ LoadErr("MapError::SyscallError(bpf_map_update_elem)",
                            Append(trace, update(FALSE)), fds, cur)
                 /\ UNCHANGED contents

\* load, line 244: obj.relocate_maps(...)?
RelocateMaps ==
    /\ pc = "relocate_maps"
    /\ UNCHANGED <<loads, input, prog_fds, links, attached, syscalls, contents>>
    /\ \E ok \in BOOLEAN :
        IF ok
        THEN /\ pc' = StepAfter("relocate_maps", DOMAIN obj.maps)
             /\ trace' = Append(trace, Ev("relocate_maps", "", TRUE, NoneFd))
             /\ UNCHANGED <<loader, obj, maps, cur, bpf, held, fds, pins, last>>
        ELSE LoadErr("RelocationError",
                     Append(trace, Ev("relocate_maps", "", FALSE, NoneFd)), fds, cur)

\* load, line 245: obj.relocate_calls()?
RelocateCalls ==
    /\ pc = "relocate_calls"
    /\ UNCHANGED <<loads, input, prog_fds, links, attached, syscalls, contents>>
    /\ \E ok \in BOOLEAN :
        IF ok
        THEN /\ pc' = StepAfter("relocate_calls", DOMAIN obj.maps)
             /\ trace' = Append(trace, Ev("relocate_calls", "", TRUE, NoneFd))
             /\ UNCHANGED <<loader, obj, maps, cur, bpf, held, fds, pins, last>>
        ELSE LoadErr("RelocationError",
                     Append(trace, Ev("relocate_calls", "", FALSE, NoneFd)), fds, cur)

ProgramData(section) ==
    [section |-> section, fd |-> NoneFd, expected_attach_type |-> "None",
     attach_btf_obj_fd |-> "None", attach_btf_id |-> "None"]

Variant(v, k, section) == [variant |-> v, kind |-> k, data |-> ProgramData(section)]

\* the mutant: the two SkSkb arms carry each other's kind
ClassifySwapsSkSkbKinds(section) ==
    CASE section = "KProbe" -> Variant("KProbe", "KProbe", section)
      [] section = "KRetProbe" -> Variant("KProbe", "KRetProbe", section)
      [] section = "UProbe" -> Variant("UProbe", "UProbe", section)
      [] section = "URetProbe" -> Variant("UProbe", "URetProbe", section)
      [] section = "TracePoint" -> Variant("TracePoint", "", section)
      [] section = "SocketFilter" -> Variant("SocketFilter", "", section)
      [] section = "Xdp" -> Variant("Xdp", "", section)
      [] section = "SkMsg" -> Variant("SkMsg", "", section)
      [] section = "SkSkbStreamParser" -> Variant("SkSkb", "StreamVerdict", section)
      [] section = "SkSkbStreamVerdict" -> Variant("SkSkb", "StreamParser", section)
      [] section = "SockOps" -> Variant("SockOps", "", section)
      [] section = "SchedClassifier" -> Variant("SchedClassifier", "", section)
      [] section = "CgroupSkbIngress" -> Variant("CgroupSkb", "Ingress", section)
      [] section = "CgroupSkbEgress" -> Variant("CgroupSkb", "Egress", section)
      [] section = "LircMode2" -> Variant("LircMode2", "", section)
      [] section = "PerfEvent" -> Variant("PerfEvent", "", section)
      [] section = "RawTracePoint" -> Variant("RawTracePoint", "", section)
      [] section = "Lsm" -> Variant("Lsm", "", section)
      [] section = "BtfTracePoint" -> Variant("BtfTracePoint", "", section)

\* load, lines 251-316: the Program built for a program of the object; `kind`
\* is the field the variant adds to data (kind, or expected_attach_type of
\* CgroupSkb)
Classify(section) ==
    CASE section = "KProbe" -> Variant("KProbe", "KProbe", section)
      [] section = "KRetProbe" -> Variant("KProbe", "KRetProbe", section)
      [] section = "UProbe" -> Variant("UProbe", "UProbe", section)
      [] section = "URetProbe" -> Variant("UProbe", "URetProbe", section)
      [] section = "TracePoint" -> Variant("TracePoint", "", section)
      [] section = "SocketFilter" -> Variant("SocketFilter", "", section)
      [] section = "Xdp" -> Variant("Xdp", "", section)
      [] section = "SkMsg" -> Variant("SkMsg", "", section)
      [] section = "SkSkbStreamParser" -> Variant("SkSkb", "StreamParser", section)
      [] section = "SkSkbStreamVerdict" -> Variant("SkSkb", "StreamVerdict", section)
      [] section = "SockOps" -> Variant("SockOps", "", section)
      [] section = "SchedClassifier" -> Variant("SchedClassifier", "", section)
      [] section = "CgroupSkbIngress" -> Variant("CgroupSkb", "Ingress", section)
      [] section = "CgroupSkbEgress" -> Variant("CgroupSkb", "Egress", section)
      [] section = "LircMode2" -> Variant("LircMode2", "", section)
      [] section = "PerfEvent" -> Variant("PerfEvent", "", section)
      [] section = "RawTracePoint" -> Variant("RawTracePoint", "", section)
      [] section = "Lsm" -> Variant("Lsm", "", section)
      [] section = "BtfTracePoint" -> Variant("BtfTracePoint", "", section)

\* load, lines 247-320: obj.programs.drain().map(...).collect()
CollectPrograms(ps) == [n \in DOMAIN ps |-> Classify(ps[n])]

\* load, lines 247-321: the programs are classified and Ok(Bpf { maps, programs })
\* is returned
ClassifyPrograms ==
    /\ pc = "classify"
    /\ UNCHANGED <<loads, input, prog_fds, links, attached, syscalls, contents>>
    /\ bpf' = [present |-> TRUE, maps |-> maps, programs |-> CollectPrograms(obj.programs)]
    /\ pc' = "idle"
    /\ obj' = EmptyObj
    /\ maps' = EmptyFn
    /\ trace' = Append(trace, Ev("classify", "", TRUE, NoneFd))
    /\ last' = Call("load", "", "Ok")
    /\ UNCHANGED <<loader, cur, held, fds, pins>>

----------------------------------------------------------------------------
(* Bpf *)

Option(S) == IF S = {} THEN <<>> ELSE <<CHOOSE x \in S : TRUE>>

\* Bpf::map_opt and Bpf::map_mut_opt: self.maps.get(name)
map_opt(b, name) == Option({b.maps[n] : n \in DOMAIN b.maps \cap {name}})

\* Bpf::program_opt and Bpf::program_mut_opt: self.programs.get(name)
program_opt(b, name) == Option({b.programs[n] : n \in DOMAIN b.programs \cap {name}})

\* Option::ok_or(NotFound)
ok_or_NotFound(opt) == IF opt = <<>> THEN "NotFound" ELSE "Ok"

\* the mutant: the map is handed out and the entry stays
take_map_opt_keeps_entry(b, name) ==
    [bpf |-> b,
     taken |-> IF name \in DOMAIN b.maps
               THEN <<[name |-> name, map |-> b.maps[name]]>> ELSE <<>>]

\* Bpf::take_map_opt: self.maps.remove_entry(name)
take_map_opt(b, name) ==
    [bpf |-> [b EXCEPT !.maps = [n \in DOMAIN b.maps \ {name} |-> b.maps[n]]],
     taken |-> IF name \in DOMAIN b.maps
               THEN <<[name |-> name, map |-> b.maps[name]]>> ELSE <<>>]

\* the mutant: HashMap::insert in place of the entry API, which overwrites
return_map_overwrites(b, name, m) ==
    [bpf |-> [b EXCEPT !.maps = (name :> m) @@ [n \in DOMAIN b.maps \ {name} |-> b.maps[n]]],
     res |-> "Ok",
     dropped |-> IF name \in DOMAIN b.maps THEN MapDrop(b.maps[name]) ELSE {}]

\* the mutant: the map is put back without its descriptor
return_map_loses_fd(b, name, m) ==
    IF name \in DOMAIN b.maps
    THEN [bpf |-> b, res |-> "Occupied", dropped |-> MapDrop(m)]
    ELSE [bpf |-> [b EXCEPT !.maps = (name :> [m EXCEPT !.fd = NoneFd]) @@ b.maps],
          res |-> "Ok", dropped |-> {}]

\* Bpf::return_map: a vacant entry takes the map; on an occupied entry the map
\* passed by value goes out of scope
return_map(b, name, m) ==
    IF name \in DOMAIN b.maps
    THEN [bpf |-> b, res |-> "Occupied", dropped |-> MapDrop(m)]
    ELSE [bpf |-> [b EXCEPT !.maps = (name :> m) @@ b.maps], res |-> "Ok", dropped |-> {}]

\* the mutant: a miss creates an empty entry
LookupInsertsDefault(op, opt, name) ==
    /\ pc = "idle"
    /\ syscalls' = <<>>
    /\ UNCHANGED <<prog_fds, links, attached, contents>>
    /\ bpf.present
    /\ last' = Call(op, name, ok_or_NotFound(opt))
    /\ bpf' = IF opt = <<>> /\ op \in {"map_mut", "program_mut"}
              THEN [bpf EXCEPT !.maps = (name :> NoMap) @@ bpf.maps]
              ELSE bpf
    /\ trace' = <<>>
    /\ input' = EmptyObj
    /\ UNCHANGED <<loader, pc, obj, maps, cur, held, fds, pins, loads>>

\* Bpf::map, Bpf::map_mut, Bpf::program, Bpf::program_mut: the lookup and
\* ok_or(NotFound); the Bpf is not changed
Lookup(op, opt, name) ==
    /\ pc = "idle"
    /\ syscalls' = <<>>
    /\ UNCHANGED <<prog_fds, links, attached, contents>>
    /\ bpf.present
    /\ last' = Call(op, name, ok_or_NotFound(opt))
    /\ trace' = <<>>
    /\ input' = EmptyObj
    /\ UNCHANGED <<loader, pc, obj, maps, cur, bpf, held, fds, pins, loads>>

\* Bpf::map(name)
Map(name) == Lookup("map", map_opt(bpf, name), name)

\* Bpf::map_mut(name)
MapMut(name) == Lookup("map_mut", map_opt(bpf, name), name)

\* Bpf::program(name)
Program(name) == Lookup("program", program_opt(bpf, name), name)

\* Bpf::program_mut(name)
ProgramMut(name) == Lookup("program_mut", program_opt(bpf, name), name)

\* Bpf::take_map(name): take_map_opt(name).ok_or(NotFound)
TakeMap(name) ==
    /\ pc = "idle"
    /\ syscalls' = <<>>
    /\ UNCHANGED <<prog_fds, links, attached, contents>>
    /\ bpf.present
    /\ Cardinality(held) < MaxHeld
    /\ LET r == take_map_opt(bpf, name)
       IN /\ bpf' = r.bpf
          /\ held' = held \cup {r.taken[i] : i \in DOMAIN r.taken}
          /\ last' = [Call("take_map", name, ok_or_NotFound(r.taken))
                        EXCEPT !.fd = IF r.taken = <<>> THEN NoneFd ELSE r.taken[1].map.fd]
    /\ trace' = <<>>
    /\ input' = EmptyObj
    /\ UNCHANGED <<loader, pc, obj, maps, cur, fds, pins, loads>>

\* the names the caller returns a map under: the name take_map gave, or a name
\* the Bpf holds
ReturnNames(h) == {h.name} \cup DOMAIN bpf.maps

\* Bpf::return_map(name, map) with a map the caller owns
ReturnMap(name, h) ==
    /\ pc = "idle"
    /\ syscalls' = <<>>
    /\ UNCHANGED <<prog_fds, links, attached, contents>>
    /\ bpf.present
    /\ h \in held
    /\ LET r == return_map(bpf, name, h.map)
           after_take == /\ last.op = "take_map" /\ last.res = "Ok"
                         /\ last.name = name /\ h.name = name /\ last.fd = h.map.fd
       IN /\ bpf' = r.bpf
          /\ held' = held \ {h}
          /\ fds' = Close(fds, r.dropped)
          /\ last' = [Call("return_map", name, r.res)
                        EXCEPT !.pre_take = IF after_take THEN last.pre ELSE NoBpf,
                               !.fd = h.map.fd,
                               !.rt = after_take]
    /\ trace' = <<>>
    /\ input' = EmptyObj
    /\ UNCHANGED <<loader, pc, obj, maps, cur, pins, loads>>

\* Drop for a Program: the descriptor released when it goes out of scope
ProgramDrop(p) == IF p.data.fd # NoneFd THEN {p.data.fd} ELSE {}

\* the Bpf goes out of scope: its maps and its programs are dropped
DropBpf ==
    /\ pc = "idle"
    /\ bpf.present
    /\ fds' = Close(fds, ScopeExit(bpf.maps, NoCur))
    /\ prog_fds' = prog_fds \ UNION {ProgramDrop(bpf.programs[n]) : n \in DOMAIN bpf.programs}
    /\ syscalls' = <<>>
    /\ UNCHANGED <<links, attached, contents>>
    /\ bpf' = NoBpf
    /\ last' = Call("drop", "", "Ok")
    /\ trace' = <<>>
    /\ input' = EmptyObj
    /\ UNCHANGED <<loader, pc, obj, maps, cur, held, pins, loads>>

\* a map the caller took goes out of scope
DropHeld(h) ==
    /\ pc = "idle"
    /\ syscalls' = <<>>
    /\ UNCHANGED <<prog_fds, links, attached, contents>>
    /\ h \in held
    /\ held' = held \ {h}
    /\ fds' = Close(fds, MapDrop(h.map))
    /\ last' = Call("drop_map", h.name, "Ok")
    /\ trace' = <<>>
    /\ input' = EmptyObj
    /\ UNCHANGED <<loader, pc, obj, maps, cur, bpf, pins, loads>>

\* the values another user of a pinned map may leave at its key 0
KernelValues == {<<9>>}

\* kernel: another user of the pinned map k (a program, another process)
\* writes its element at key 0 while the caller is not inside load
KernelWrite(k, v) ==
    /\ pc = "idle"
    /\ k \in Range(pins)
    /\ contents[k] # v
    /\ contents' = (k :> v) @@ contents
    /\ UNCHANGED <<loader, pc, input, obj, maps, cur, bpf, held, fds, pins, loads, trace,
                   last, prog_fds, links, attached, syscalls>>

----------------------------------------------------------------------------
(* SkSkb *)

\* how many Links the caller collects
MaxLinks == 2

\* bpf_attach_type of the generated bindings
BPF_SK_SKB_STREAM_PARSER == 4
BPF_SK_SKB_STREAM_VERDICT == 5

\* the programs of the Bpf that convert to &mut SkSkb
SkSkbNames == {n \in DOMAIN bpf.programs : bpf.programs[n].variant = "SkSkb"}

\* load_program: the program holds the descriptor the kernel returned
ProgramLoaded(p, fd) == [p EXCEPT !.data.fd = fd]

\* SkSkb::load on a program that was not loaded before:
\* load_program(BPF_PROG_TYPE_SK_SKB, &mut self.data)
SkSkbLoad(name) ==
    /\ pc = "idle"
    /\ bpf.present
    /\ name \in SkSkbNames
    /\ bpf.programs[name].data.fd = NoneFd
    /\ \E ok \in BOOLEAN :
        IF ok
        THEN LET fd == NewFd(fds)
             IN /\ prog_fds' = prog_fds \cup {fd}
                /\ bpf' = [bpf EXCEPT !.programs[name] = ProgramLoaded(@, fd)]
                /\ last' = [Call("sk_skb_load", name, "Ok") EXCEPT !.fd = fd]
        ELSE /\ last' = Call("sk_skb_load", name, "LoadError")
             /\ UNCHANGED <<bpf, prog_fds>>
    /\ trace' = <<>>
    /\ input' = EmptyObj
    /\ syscalls' = <<>>
    /\ UNCHANGED <<loader, pc, obj, maps, cur, held, fds, pins, loads, links, attached,
                   contents>>

\* ProgramData::fd_or_err and SocketMap::fd_or_err: the handle, or the error
\* of a program that is not loaded or of a map that is not created
fd_or_err(fd, e) == IF fd = NoneFd THEN e ELSE "Ok"

\* the mutant: every SkSkb attaches as a stream parser
AttachTypeAlwaysParser(kind) == BPF_SK_SKB_STREAM_PARSER

\* attach, lines 67-70: the attach type of the program's kind
AttachType(kind) ==
    CASE kind = "StreamParser" -> BPF_SK_SKB_STREAM_PARSER
      [] kind = "StreamVerdict" -> BPF_SK_SKB_STREAM_VERDICT

\* ProgAttachLink::new: the Link owns what it was built from
ProgAttachLink(prog_fd, target_fd, attach_type) ==
    [prog_fd |-> prog_fd, target_fd |-> target_fd, attach_type |-> attach_type]

\* the mutant: the Link is built with the two descriptors exchanged
AttachLinkSwapped(prog_fd, map_fd, attach_type) ==
    ProgAttachLink(map_fd, prog_fd, attach_type)

\* attach, line 78: Ok(ProgAttachLink::new(prog_fd, map_fd, attach_type).into())
AttachLink(prog_fd, map_fd, attach_type) ==
    ProgAttachLink(prog_fd, map_fd, attach_type)

\* one bpf_prog_attach(prog_fd, map_fd, attach_type) as the kernel sees it, and
\* whether the kernel answered it with success
ProgAttachCall(prog_fd, map_fd, attach_type, ok) ==
    [prog_fd |-> prog_fd, target_fd |-> map_fd, attach_type |-> attach_type, ok |-> ok]

\* the mutant: a program without a descriptor is attached all the same
attach_unloaded(p, m, sys_ok) ==
    LET prog_fd == p.data.fd
        map_fd == m.fd
        attach_type == AttachType(p.kind)
        call == ProgAttachCall(prog_fd, map_fd, attach_type, sys_ok)
    IN  IF fd_or_err(map_fd, "MapError") # "Ok"
        THEN [res |-> "MapError", calls |-> <<>>, link |-> <<>>]
        ELSE IF ~sys_ok
        THEN [res |-> "SyscallError(bpf_prog_attach)", calls |-> <<call>>, link |-> <<>>]
        ELSE [res |-> "Ok", calls |-> <<call>>,
              link |-> <<AttachLink(prog_fd, map_fd, attach_type)>>]

\* the mutant: a map without a descriptor is attached to all the same
attach_uncreated(p, m, sys_ok) ==
    LET prog_fd == p.data.fd
        map_fd == m.fd
        attach_type == AttachType(p.kind)
        call == ProgAttachCall(prog_fd, map_fd, attach_type, sys_ok)
    IN  IF fd_or_err(prog_fd, "NotLoaded") # "Ok"
        THEN [res |-> "NotLoaded", calls |-> <<>>, link |-> <<>>]
        ELSE IF ~sys_ok
        THEN [res |-> "SyscallError(bpf_prog_attach)", calls |-> <<call>>, link |-> <<>>]
        ELSE [res |-> "Ok", calls |-> <<call>>,
              link |-> <<AttachLink(prog_fd, map_fd, attach_type)>>]

\* the mutant: a failed bpf_prog_attach is tried once more
attach_retries(p, m, sys_ok) ==
    LET prog_fd == p.data.fd
        map_fd == m.fd
        attach_type == AttachType(p.kind)
        call == ProgAttachCall(prog_fd, map_fd, attach_type, sys_ok)
    IN  IF fd_or_err(prog_fd, "NotLoaded") # "Ok"
        THEN [res |-> "NotLoaded", calls |-> <<>>, link |-> <<>>]
        ELSE IF fd_or_err(map_fd, "MapError") # "Ok"
        THEN [res |-> "MapError", calls |-> <<>>, link |-> <<>>]
        ELSE IF ~sys_ok
        THEN [res |-> "SyscallError(bpf_prog_attach)", calls |-> <<call, call>>,
              link |-> <<>>]
        ELSE [res |-> "Ok", calls |-> <<call>>,
              link |-> <<AttachLink(prog_fd, map_fd, attach_type)>>]

\* SkSkb::attach, lines 64-79, on the program p and the socket map m, when the
\* kernel answers bpf_prog_attach with sys_ok: the result, the attach syscalls
\* issued and the Link returned
attach(p, m, sys_ok) ==
    LET prog_fd == p.data.fd
        map_fd == m.fd
        attach_type == AttachType(p.kind)
        call == ProgAttachCall(prog_fd, map_fd, attach_type, sys_ok)
    IN  IF fd_or_err(prog_fd, "NotLoaded") # "Ok"
        THEN [res |-> "NotLoaded", calls |-> <<>>, link |-> <<>>]
        ELSE IF fd_or_err(map_fd, "MapError") # "Ok"
        THEN [res |-> "MapError", calls |-> <<>>, link |-> <<>>]
        ELSE IF ~sys_ok
        THEN [res |-> "SyscallError(bpf_prog_attach)", calls |-> <<call>>, link |-> <<>>]
        ELSE [res |-> "Ok", calls |-> <<call>>,
              link |-> <<AttachLink(prog_fd, map_fd, attach_type)>>]

\* kernel: a successful bpf_prog_attach puts the program on the map, in the
\* place of the program that was attached there with the same attach type
KernelAttach(att, c) ==
    {a \in att : ~(a.map = fds[c.target_fd] /\ a.attach_type = c.attach_type)}
        \cup {[prog_fd |-> c.prog_fd, map |-> fds[c.target_fd],
                attach_type |-> c.attach_type]}

\* the state of a program in the attach state machine: Unloaded without a
\* descriptor, Attached while the kernel has it attached to a map, else Loaded
ProgramState(p, att) ==
    IF p.data.fd = NoneFd THEN "Unloaded"
    ELSE IF \E a \in att : a.prog_fd = p.data.fd THEN "Attached"
    ELSE "Loaded"

\* the socket maps the caller can pass to attach: a map taken out of the Bpf,
\* or a SocketMap that has no descriptor
AttachTargets == {h.map : h \in held} \cup {NoMap}

\* the mutant: a successful attach marks the program as attached
SkSkbAttachRecordsState(name, m) ==
    /\ pc = "idle"
    /\ bpf.present
    /\ name \in SkSkbNames
    /\ m \in AttachTargets
    /\ Len(links) < MaxLinks
    /\ \E sys_ok \in BOOLEAN :
        LET r == attach(bpf.programs[name], m, sys_ok)
        IN /\ syscalls' = r.calls
           /\ links' = links \o r.link
           /\ attached' = IF r.res = "Ok" THEN KernelAttach(attached, r.calls[1])
                           ELSE attached
           /\ bpf' = IF r.res = "Ok"
                     THEN [bpf EXCEPT !.programs[name].data.expected_attach_type = "Attached"]
                     ELSE bpf
           /\ last' = [Call("attach", name, r.res) EXCEPT !.fd = m.fd]
    /\ trace' = <<>>
    /\ input' = EmptyObj
    /\ UNCHANGED <<loader, pc, obj, maps, cur, held, fds, pins, loads, prog_fds, contents>>

\* SkSkb::attach(map) on the program `name` of the Bpf
SkSkbAttach(name, m) ==
    /\ pc = "idle"
    /\ bpf.present
    /\ name \in SkSkbNames
    /\ m \in AttachTargets
    /\ Len(links) < MaxLinks
    /\ \E sys_ok \in BOOLEAN :
        LET r == attach(bpf.programs[name], m, sys_ok)
        IN /\ syscalls' = r.calls
           /\ links' = links \o r.link
           /\ attached' = IF r.res = "Ok" THEN KernelAttach(attached, r.calls[1])
                           ELSE attached
           /\ last' = [Call("attach", name, r.res) EXCEPT !.fd = m.fd]
    /\ trace' = <<>>
    /\ input' = EmptyObj
    /\ UNCHANGED <<loader, pc, obj, maps, cur, bpf, held, fds, pins, loads, prog_fds,
                   contents>>

----------------------------------------------------------------------------

Next ==
    \/ \E b \in BOOLEAN : Btf(b)
    \/ \E p \in PinPaths : MapPinPath(p)
    \/ \E o \in Objects : Load(o)
    \/ RelocateBtf
    \/ MapBegin
    \/ FromPinned
    \/ Create
    \/ Pin
    \/ Populate
    \/ RelocateMaps
    \/ RelocateCalls
    \/ ClassifyPrograms
    \/ \E n \in MapNames : Map(n)
    \/ \E n \in MapNames : MapMut(n)
    \/ \E n \in ProgramNames : Program(n)
    \/ \E n \in ProgramNames : ProgramMut(n)
    \/ \E n \in MapNames : TakeMap(n)
    \/ \E h \in held : \E n \in ReturnNames(h) : ReturnMap(n, h)
    \/ DropBpf
    \/ \E h \in held : DropHeld(h)

Spec == Init /\ [][Next]_vars

\* a caller that loads an object, takes maps out of the Bpf and loads and
\* attaches its SkSkb programs
NextSkSkb ==
    \/ \E p \in PinPaths : MapPinPath(p)
    \/ \E o \in Objects : Load(o)
    \/ RelocateBtf
    \/ MapBegin
    \/ FromPinned
    \/ Create
    \/ Pin
    \/ Populate
    \/ RelocateMaps
    \/ RelocateCalls
    \/ ClassifyPrograms
    \/ \E n \in MapNames : TakeMap(n)
    \/ \E h \in held : \E n \in ReturnNames(h) : ReturnMap(n, h)
    \/ \E n \in ProgramNames : SkSkbLoad(n)
    \/ \E n \in ProgramNames : \E m \in AttachTargets : SkSkbAttach(n, m)

SpecSkSkb == Init /\ [][NextSkSkb]_vars

\* a caller that loads objects with pinned maps, drops the Bpf and loads
\* again, while the pinned maps are in use elsewhere
NextPinned ==
    \/ \E p \in PinPaths : MapPinPath(p)
    \/ \E o \in Objects : Load(o)
    \/ RelocateBtf
    \/ MapBegin
    \/ FromPinned
    \/ Create
    \/ Pin
    \/ Populate
    \/ RelocateMaps
    \/ RelocateCalls
    \/ ClassifyPrograms
    \/ DropBpf
    \/ \E k \in Range(pins) : \E v \in KernelValues : KernelWrite(k, v)

SpecPinned == Init /\ [][NextPinned]_vars

\* a caller that loads objects with programs of every section kind and looks
\* the programs up
NextClassify ==
    \/ \E o \in SectionObjects : Load(o)
    \/ RelocateBtf
    \/ MapBegin
    \/ Create
    \/ Populate
    \/ RelocateMaps
    \/ RelocateCalls
    \/ ClassifyPrograms
    \/ \E n \in ProgramNames : Program(n)

SpecClassify == Init /\ [][NextClassify]_vars

----------------------------------------------------------------------------
(* Properties of load *)

\* load has returned to the caller and nothing was called since
LoadReturned == pc = "idle" /\ last.op = "load"

LoadFailed == LoadReturned /\ last.res # "Ok"

HasByName(o) == \E n \in DOMAIN o.maps : o.maps[n].def.pinning = "ByName"

\* the steps of the trace that failed and that load does not recover from
\* (a failed from_pinned falls back to create)
FailedSteps == {i \in DOMAIN trace : ~trace[i].ok /\ trace[i].op # "from_pinned"}

Steps(op) == {i \in DOMAIN trace : trace[i].op = op}

\* the handles the load call acquired
Acquired == {trace[i].fd : i \in {j \in Steps("create") \cup Steps("from_pinned") : trace[j].ok}}

\* C1 as stated: load of an object with a map pinned by name and no pin path
\* configured fails with NoPinPath.
C1_AlwaysNoPinPath ==
    (LoadReturned /\ HasByName(input) /\ loader.map_pin_path = NoPath)
        => last.res = "NoPinPath"

\* C1, amended: load of an object with a map pinned by name and no pin path
\* configured never returns a Bpf; its error is NoPinPath unless a step before
\* the pinned map's turn failed first (BTF relocation, the CPU count, the
\* create or the initial data write of a map drained earlier), and it is
\* NoPinPath whenever the loop reaches the pinned map.
C1_NoPinPathUnlessEarlierError ==
    (LoadReturned /\ HasByName(input) /\ loader.map_pin_path = NoPath)
        => /\ last.res # "Ok"
           /\ ~bpf.present
           /\ \/ last.res = "NoPinPath"
              \/ \E i \in FailedSteps :
                    trace[i].op \in {"relocate_btf", "possible_cpus", "create", "update_elem"}
           /\ (Steps("pin_path") # {} <=> last.res = "NoPinPath")
           /\ Steps("from_pinned") \cup Steps("pin") \cup Steps("relocate_maps") = {}

\* a load that fails with NoPinPath after another map got its handle
C1_Witness ==
    /\ LoadReturned /\ HasByName(input) /\ loader.map_pin_path = NoPath
    /\ last.res = "NoPinPath"
    /\ Acquired # {}

\* C2: with a pin path configured and no failing step, load of an object with
\* a map pinned by name succeeds, and every map pinned by name of a Bpf that
\* load returns has pinned = TRUE, opened from its pin or created and pinned.
C2_PinnedByNameIsPinned ==
    /\ (LoadReturned /\ last.res = "Ok")
          => \A n \in DOMAIN bpf.maps :
                bpf.maps[n].obj.def.pinning = "ByName"
                    => /\ bpf.maps[n].pinned
                       /\ loader.map_pin_path # NoPath
                       /\ \E i \in DOMAIN trace :
                            /\ trace[i].name = n /\ trace[i].ok
                            /\ trace[i].op \in {"from_pinned", "pin"}
    /\ (LoadReturned /\ HasByName(input) /\ loader.map_pin_path # NoPath /\ FailedSteps = {})
          => last.res = "Ok"

\* a Bpf whose pinned map was opened from the pin an earlier load made
C2_Witness ==
    /\ LoadReturned /\ last.res = "Ok"
    /\ \E i \in Steps("from_pinned") :
          /\ trace[i].ok
          /\ bpf.maps[trace[i].name].pinned
          /\ bpf.maps[trace[i].name].fd = trace[i].fd

----------------------------------------------------------------------------
(* Properties of the Bpf *)

\* C3: take_map of a present name directly followed by return_map of the name
\* and map it gave succeeds and leaves the Bpf as it was before the take: the
\* same names, the same map and the same open handle under the name.
C3_TakeReturnRoundTrip ==
    (last.op = "return_map" /\ last.rt)
        => /\ last.res = "Ok"
           /\ bpf = last.pre_take
           /\ last.name \in DOMAIN bpf.maps
           /\ bpf.maps[last.name].fd = last.fd
           /\ last.fd \in DOMAIN fds

C3_Witness ==
    /\ last.op = "return_map" /\ last.rt /\ last.res = "Ok"
    /\ Cardinality(DOMAIN bpf.maps) > 1

\* C4: return_map under a name the Bpf already holds fails with Occupied and
\* leaves the Bpf as it was: the same names, and the same map with its handle
\* still open under that name.
C4_ReturnOccupied ==
    (last.op = "return_map" /\ last.name \in DOMAIN last.pre.maps)
        => /\ last.res = "Occupied"
           /\ bpf = last.pre
           /\ bpf.maps[last.name].fd \in DOMAIN fds
           /\ bpf.maps[last.name].fd # last.fd

C4_Witness == last.op = "return_map" /\ last.res = "Occupied"

\* the holders of the handle f: entries of the Bpf and maps the caller took
Holders(f) ==
    {<<"bpf", n>> : n \in {m \in DOMAIN bpf.maps : bpf.maps[m].fd = f}}
        \cup {<<"caller", h.name>> : h \in {g \in held : g.map.fd = f}}

C6_NotFoundLeavesBpf ==
    /\ (last.op \in {"map", "map_mut", "take_map"} /\ last.name \notin DOMAIN last.pre.maps)
          => last.res = "NotFound" /\ bpf = last.pre
    /\ (last.op \in {"program", "program_mut"} /\ last.name \notin DOMAIN last.pre.programs)
          => last.res = "NotFound" /\ bpf = last.pre

C6_Witness ==
    /\ last.op = "program_mut" /\ last.res = "NotFound"
    /\ bpf.present /\ DOMAIN bpf.programs # {} /\ DOMAIN bpf.maps # {}

\* C7: the Bpf a successful load returns holds exactly the map names and the
\* program names the object declares.
C7_NamesAsDeclared ==
    (LoadReturned /\ last.res = "Ok")
        => /\ bpf.present
           /\ DOMAIN bpf.maps = DOMAIN input.maps
           /\ DOMAIN bpf.programs = DOMAIN input.programs

C7_Witness ==
    /\ LoadReturned /\ last.res = "Ok"
    /\ Cardinality(DOMAIN bpf.maps) = 3 /\ Cardinality(DOMAIN bpf.programs) = 2

----------------------------------------------------------------------------
(* Properties of the pipeline *)

\* the phase of load a step belongs to
Phase(op) ==
    CASE op = "parse" -> 0
      [] op = "relocate_btf" -> 1
      [] op \in {"possible_cpus", "pin_path", "from_pinned", "create", "pin",
                 "update_elem", "insert"} -> 2
      [] op = "relocate_maps" -> 3
      [] op = "relocate_calls" -> 4
      [] op = "classify" -> 5

\* C8: in every load, BTF relocation comes before any map step, every map of
\* the object has been created or opened, pinned, populated and inserted before
\* map relocation, map relocation comes before call relocation, and both
\* relocations succeeded before the programs are classified and the Bpf exists.
C8_PipelineOrder ==
    /\ \A i, j \in DOMAIN trace : i < j => Phase(trace[i].op) < Phase(trace[j].op)
                                           \/ (Phase(trace[i].op) = 2 /\ Phase(trace[j].op) = 2)
    /\ \A i \in Steps("relocate_maps") :
          \A n \in DOMAIN input.maps :
             \E j \in Steps("insert") : j < i /\ trace[j].name = n
    /\ \A i \in Steps("relocate_calls") : \E j \in Steps("relocate_maps") : j < i /\ trace[j].ok
    /\ \A i \in Steps("classify") : \E j \in Steps("relocate_calls") : j < i /\ trace[j].ok
    /\ (LoadReturned /\ last.res = "Ok") => Steps("classify") # {}
    /\ (pc # "idle" \/ LoadReturned) => (Steps("relocate_btf") # {} => loader.btf)

\* all three maps are in, BTF was relocated, and the programs are next
C8_Witness ==
    /\ pc = "classify"
    /\ Steps("relocate_btf") # {}
    /\ Cardinality(Steps("insert")) = 3
    /\ Steps("pin") # {}

\* the error that a failed step gives load
ErrorOf(op) ==
    CASE op = "parse" -> "ParseError"
      [] op = "relocate_btf" -> "BtfError"
      [] op = "possible_cpus" -> "FileError"
      [] op = "pin_path" -> "NoPinPath"
      [] op \in {"create", "pin"} -> "MapError"
      [] op = "update_elem" -> "MapError::SyscallError(bpf_map_update_elem)"
      [] op \in {"relocate_maps", "relocate_calls"} -> "RelocationError"
      [] OTHER -> "none"

\* C9: the first failing step of load (parse, BTF relocation, CPU count, missing
\* pin path, create, pin, initial data, map or call relocation) is its last
\* step: load returns that step's error and no Bpf.
C9_FailFast ==
    /\ \A i \in FailedSteps :
          /\ i = Len(trace)
          /\ LoadFailed
          /\ last.res = ErrorOf(trace[i].op)
          /\ ~bpf.present
    /\ LoadFailed => FailedSteps # {} /\ ~bpf.present

\* the initial data write of the third map failed
C9_Witness ==
    /\ LoadFailed /\ last.res = "MapError::SyscallError(bpf_map_update_elem)"
    /\ trace[Len(trace)].op = "update_elem"
    /\ Cardinality(Steps("create")) = 3

\* C10: when load fails, every handle it acquired has been closed when the
\* caller gets the error, and the only open handles are those of maps the
\* caller took earlier.
C10_FailedLoadReleasesHandles ==
    LoadFailed
        => /\ Acquired \cap DOMAIN fds = {}
           /\ DOMAIN fds = {h.map.fd : h \in held}

\* a load that fails at its third map after two maps got their handles
C10_Witness ==
    /\ LoadFailed
    /\ Cardinality(Acquired) >= 2
    /\ Steps("relocate_maps") = {}

----------------------------------------------------------------------------
(* Properties of SkSkb::attach *)

\* the step is a call of SkSkb::attach: no other call leaves "attach" in `last`
AttachCalled == pc = "idle" /\ last'.op = "attach"

\* the program attach was called on, as it was before the call
AttachProgram == bpf.programs[last'.name]

\* C11: SkSkb::attach on a program that has no kernel handle fails with the
\* error of a program that is not loaded, whether or not the target map has a
\* handle, issues no attach syscall and returns no Link.
C11_UnloadedAttachFails ==
    [][(AttachCalled /\ AttachProgram.data.fd = NoneFd)
           => /\ last'.res = "NotLoaded"
              /\ syscalls' = <<>>
              /\ links' = links
              /\ attached' = attached]_vars

\* attach was refused on an unloaded program although the map had a handle
C11_Witness ==
    /\ last.op = "attach" /\ last.res = "NotLoaded"
    /\ bpf.programs[last.name].data.fd = NoneFd
    /\ last.fd # NoneFd
    /\ syscalls = <<>>

\* C12: SkSkb::attach on a loaded program with a target socket map that has no
\* kernel handle fails, issues no attach syscall and returns no Link; every
\* attach syscall is issued with a present program handle and a present map
\* handle.
C12_AttachNeedsBothHandles ==
    [][AttachCalled
           => /\ (AttachProgram.data.fd # NoneFd /\ last'.fd = NoneFd)
                     => /\ last'.res \notin {"Ok", "NotLoaded"}
                        /\ syscalls' = <<>>
                        /\ links' = links
                        /\ attached' = attached
              /\ \A i \in DOMAIN syscalls' :
                     /\ AttachProgram.data.fd # NoneFd
                     /\ last'.fd # NoneFd
                     /\ syscalls'[i].prog_fd = AttachProgram.data.fd
                     /\ syscalls'[i].target_fd = last'.fd]_vars

\* attach was refused on a loaded program because the map had no handle
C12_Witness ==
    /\ last.op = "attach" /\ last.res = "MapError"
    /\ bpf.programs[last.name].data.fd # NoneFd
    /\ last.fd = NoneFd
    /\ syscalls = <<>>

\* C13: every attach syscall SkSkb::attach issues carries the attach type of
\* the program's kind: the stream-verdict constant for a program classified
\* from a stream-verdict section, the stream-parser constant for one from a
\* stream-parser section; the two constants differ.
C13_AttachTypeOfKind ==
    /\ BPF_SK_SKB_STREAM_PARSER # BPF_SK_SKB_STREAM_VERDICT
    /\ last.op = "attach"
           => \A i \in DOMAIN syscalls :
                  LET p == bpf.programs[last.name]
                  IN /\ p.data.section \in {"SkSkbStreamParser", "SkSkbStreamVerdict"}
                     /\ p.data.section = "SkSkbStreamVerdict"
                            => /\ syscalls[i].attach_type = BPF_SK_SKB_STREAM_VERDICT
                               /\ syscalls[i].attach_type # BPF_SK_SKB_STREAM_PARSER
                     /\ p.data.section = "SkSkbStreamParser"
                            => /\ syscalls[i].attach_type = BPF_SK_SKB_STREAM_PARSER
                               /\ syscalls[i].attach_type # BPF_SK_SKB_STREAM_VERDICT

\* a stream-verdict program was attached with the stream-verdict constant
C13_Witness ==
    /\ last.op = "attach"
    /\ syscalls # <<>>
    /\ bpf.programs[last.name].data.section = "SkSkbStreamVerdict"
    /\ syscalls[1].attach_type = BPF_SK_SKB_STREAM_VERDICT

\* C14: when the attach syscall fails, SkSkb::attach returns the SyscallError
\* that names bpf_prog_attach and returns no Link; the syscall is not tried
\* again (an attach call issues at most one attach syscall, and exactly one
\* when it fails in the kernel); the program keeps its handle and stays Loaded:
\* nothing is attached by the call.
C14_FailedAttach ==
    [][AttachCalled
           => /\ Len(syscalls') <= 1
              /\ (\E i \in DOMAIN syscalls' : ~syscalls'[i].ok)
                     => /\ last'.res = "SyscallError(bpf_prog_attach)"
                        /\ Len(syscalls') = 1
                        /\ links' = links
                        /\ AttachProgram.data.fd # NoneFd
                        /\ bpf' = bpf
                        /\ prog_fds' = prog_fds
                        /\ attached' = attached]_vars

\* the kernel refused the one bpf_prog_attach of an attach call
C14_Witness ==
    /\ last.op = "attach" /\ last.res = "SyscallError(bpf_prog_attach)"
    /\ Len(syscalls) = 1 /\ ~syscalls[1].ok
    /\ links = <<>>
    /\ bpf.programs[last.name].data.fd \in prog_fds

\* C15: when the attach syscall succeeds, SkSkb::attach returns Ok with one new
\* Link that owns exactly the program handle, the map handle and the attach
\* type that were passed to the syscall, and the program, which was loaded, is
\* Attached after the call.
C15_SuccessfulAttach ==
    [][(AttachCalled /\ \E i \in DOMAIN syscalls' : syscalls'[i].ok)
           => /\ last'.res = "Ok"
              /\ Len(syscalls') = 1
              /\ Len(links') = Len(links) + 1
              /\ SubSeq(links', 1, Len(links)) = links
              /\ LET link == links'[Len(links')]
                     call == syscalls'[1]
                 IN /\ link.prog_fd = call.prog_fd
                    /\ link.target_fd = call.target_fd
                    /\ link.attach_type = call.attach_type
                    /\ link.prog_fd = AttachProgram.data.fd
                    /\ link.target_fd = last'.fd
              /\ ProgramState(AttachProgram, attached) \in {"Loaded", "Attached"}
              /\ ProgramState(bpf'.programs[last'.name], attached') = "Attached"]_vars

\* a first attach succeeded: the caller has the Link of a program that was
\* Loaded and is Attached
C15_Witness ==
    /\ last.op = "attach" /\ last.res = "Ok"
    /\ Len(syscalls) = 1 /\ syscalls[1].ok
    /\ Len(links) = 1
    /\ links[1] = ProgAttachLink(bpf.programs[last.name].data.fd, last.fd,
                                 syscalls[1].attach_type)
    /\ links[1].prog_fd # links[1].target_fd
    /\ ProgramState(bpf.programs[last.name], attached) = "Attached"

----------------------------------------------------------------------------
(* Properties of the maps load builds *)

\* load has returned a Bpf to the caller and nothing was called since
LoadSucceeded == LoadReturned /\ last.res = "Ok"

\* the possible_cpus calls load made for the map `name`
CpuQueries(name) == {i \in Steps("possible_cpus") : trace[i].name = name}

\* C16: after a successful load, a perf event array declared with max_entries
\* 0 has max_entries equal to the number of possible CPUs reported to that load
\* for it; a map of another type, or a perf event array declared with a
\* non-zero max_entries, keeps the max_entries it declared.
C16_PerfArraySizedByCpus ==
    LoadSucceeded =>
        \A name \in DOMAIN bpf.maps :
            LET declared == input.maps[name].def
                m == bpf.maps[name]
            IN  IF declared.map_type = BPF_MAP_TYPE_PERF_EVENT_ARRAY
                   /\ declared.max_entries = 0
                THEN /\ Cardinality(CpuQueries(name)) = 1
                     /\ \A i \in CpuQueries(name) :
                            /\ trace[i].ok
                            /\ trace[i].n >= 1
                            /\ m.obj.def.max_entries = trace[i].n
                ELSE /\ CpuQueries(name) = {}
                     /\ m.obj.def.max_entries = declared.max_entries

\* a load sized one perf event array by the two CPUs reported and left the
\* perf event array declared with four entries alone
C16_Witness ==
    /\ LoadSucceeded
    /\ {"m1", "m2"} \subseteq DOMAIN bpf.maps
    /\ input.maps["m1"].def.map_type = BPF_MAP_TYPE_PERF_EVENT_ARRAY
    /\ input.maps["m1"].def.max_entries = 0
    /\ bpf.maps["m1"].obj.def.max_entries = MaxCpus
    /\ \E i \in CpuQueries("m1") : trace[i].n = MaxCpus
    /\ input.maps["m2"].def.map_type = BPF_MAP_TYPE_PERF_EVENT_ARRAY
    /\ bpf.maps["m2"].obj.def.max_entries = 4

\* the steps of the running or returned load that are about the map `name`
StepsOf(op, name) == {i \in Steps(op) : trace[i].name = name}

\* the map `name` as load has it: being built, in the local maps, or in the
\* Bpf that load returned
BuiltMaps ==
    [n \in (IF cur.live THEN {cur.name} ELSE {}) \cup DOMAIN maps
           \cup (IF LoadSucceeded THEN DOMAIN bpf.maps ELSE {}) |->
        IF cur.live /\ cur.name = n THEN cur.map
        ELSE IF n \in DOMAIN maps THEN maps[n]
        ELSE bpf.maps[n]]

\* the map `name` was pinned under the loader's pin path before this load
\* reached it: it is pinned now and this load did not pin it
PinnedBefore(name) ==
    /\ <<loader.map_pin_path, name>> \in DOMAIN pins
    /\ \A i \in StepsOf("pin", name) : ~trace[i].ok

\* C17 as stated: a load that finds a by-name-pinned map already pinned under
\* its pin path issues no create-map and no pin-map syscall for it and does
\* not fail on it.
C17_SecondLoadAlwaysReopens ==
    \A name \in DOMAIN input.maps :
        (pc # "from_pinned" /\ StepsOf("from_pinned", name) # {} /\ PinnedBefore(name))
            => /\ StepsOf("create", name) = {}
               /\ StepsOf("pin", name) = {}
               /\ \A i \in FailedSteps : trace[i].name # name

\* C17: a load that finds a by-name-pinned map already pinned under its pin
\* path, and whose open of the pinned map succeeds, issues no create-map and no
\* pin-map syscall for that map, keeps the descriptor it opened and marks the
\* map pinned; no step up to there fails for that map.
C17_SecondLoadReopens ==
    \A name \in DOMAIN input.maps :
        \A i \in StepsOf("from_pinned", name) :
            trace[i].ok
                => /\ PinnedBefore(name)
                   /\ StepsOf("create", name) = {}
                   /\ StepsOf("pin", name) = {}
                   /\ \A j \in FailedSteps : trace[j].name = name => trace[j].op = "update_elem"
                   /\ name \in DOMAIN BuiltMaps
                          => /\ BuiltMaps[name].pinned
                             /\ BuiltMaps[name].fd = trace[i].fd
                             /\ fds[trace[i].fd] = pins[<<loader.map_pin_path, name>>]

\* a second load opened the map the first load had pinned and returned it
C17_Witness ==
    /\ loads = 2
    /\ LoadSucceeded
    /\ \E name \in DOMAIN bpf.maps :
           /\ input.maps[name].def.pinning = "ByName"
           /\ \E i \in StepsOf("from_pinned", name) : trace[i].ok
           /\ StepsOf("create", name) = {}
           /\ bpf.maps[name].pinned

----------------------------------------------------------------------------
(* Properties of the steps of load *)

\* C18: the BTF relocation pass runs exactly when the loader holds BTF
\* information. Without it the pass is skipped without error, and load goes on
\* with the same step, on the same object and maps, as after a pass that
\* succeeded: the map loop, or the map relocations when the object has no map.
C18_BtfPassIffBtf ==
    [][LET ran(tr) == {i \in DOMAIN tr : tr[i].op = "relocate_btf"}
           follows == IF DOMAIN obj.maps = {} THEN "relocate_maps" ELSE "maps"
       IN  IF pc = "relocate_btf"
           THEN /\ Cardinality(ran(trace')) = (IF loader.btf THEN 1 ELSE 0)
                /\ ~loader.btf => /\ pc' = follows
                                  /\ trace' = trace
                                  /\ last' = last
                /\ pc' # "idle" => /\ pc' = follows
                                   /\ obj' = obj /\ maps' = maps /\ cur' = cur
                                   /\ fds' = fds /\ pins' = pins /\ last' = last
           ELSE ran(trace') \subseteq ran(trace)]_vars

\* a loader without BTF information loaded an object with maps, and the pass
\* did not run
C18_Witness ==
    /\ LoadSucceeded
    /\ ~loader.btf
    /\ Steps("relocate_btf") = {}
    /\ Steps("create") # {}
    /\ Steps("relocate_maps") # {}

\* the successful create-map and open-pinned-map calls of the load for `name`
Obtained(name) ==
    {i \in StepsOf("create", name) \cup StepsOf("from_pinned", name) : trace[i].ok}

\* C19: a map that load builds has a kernel handle exactly when load created it
\* or opened it from its pin, and the handle is the one that call gave; every
\* map of the Bpf a successful load returns has a handle, open in the kernel,
\* that came from exactly one successful create-map or open-pinned-map call
\* for that map.
C19_HandleIffObtained ==
    /\ \A name \in DOMAIN BuiltMaps :
           /\ BuiltMaps[name].fd # NoneFd <=> Obtained(name) # {}
           /\ Cardinality(Obtained(name)) <= 1
           /\ \A i \in Obtained(name) : BuiltMaps[name].fd = trace[i].fd
    /\ LoadSucceeded
           => \A name \in DOMAIN bpf.maps :
                  /\ bpf.maps[name].fd # NoneFd
                  /\ bpf.maps[name].fd \in DOMAIN fds
                  /\ Cardinality(Obtained(name)) = 1

\* a load returned a map it created and a map it opened from its pin
C19_Witness ==
    /\ LoadSucceeded
    /\ \E a, b \in DOMAIN bpf.maps :
           /\ \E i \in StepsOf("create", a) : trace[i].ok /\ bpf.maps[a].fd = trace[i].fd
           /\ \E i \in StepsOf("from_pinned", b) : trace[i].ok /\ bpf.maps[b].fd = trace[i].fd
           /\ bpf.maps[a].fd # bpf.maps[b].fd

\* C20: load issues the element-update syscall for a map, with key 0, the
\* map's initial data and flags 0, exactly when the initial data is non-empty
\* and the map is not named ".bss": at most once per map, on the handle the
\* map obtained before, and not at all for the other maps; when the syscall
\* fails, load stops there and returns the map SyscallError that names
\* bpf_map_update_elem, and no Bpf.
C20_InitialDataWrite ==
    \A name \in DOMAIN input.maps :
        LET updates == StepsOf("update_elem", name)
            data == input.maps[name].data
        IN  /\ Cardinality(updates) <= 1
            /\ StepsOf("insert", name) # {}
                   => (updates # {} <=> (data # <<>> /\ name # ".bss"))
            /\ \A i \in updates :
                   /\ data # <<>> /\ name # ".bss"
                   /\ trace[i].args = <<0, data, 0>>
                   /\ trace[i].fd # NoneFd
                   /\ \E j \in Obtained(name) : j < i /\ trace[j].fd = trace[i].fd
                   /\ \A j \in StepsOf("insert", name) : i < j
                   /\ ~trace[i].ok
                          => /\ i = Len(trace)
                             /\ LoadFailed
                             /\ last.res = "MapError::SyscallError(bpf_map_update_elem)"
                             /\ ~bpf.present

\* load kept the ".bss" map without writing its data, then failed on the
\* write of the initial data of another map
C20_Witness ==
    /\ LoadFailed
    /\ last.res = "MapError::SyscallError(bpf_map_update_elem)"
    /\ ".bss" \in DOMAIN input.maps /\ input.maps[".bss"].data # <<>>
    /\ StepsOf("insert", ".bss") # {}
    /\ StepsOf("update_elem", ".bss") = {}
    /\ \E i \in Steps("update_elem") :
           /\ ~trace[i].ok /\ i = Len(trace)
           /\ trace[i].args[1] = 0 /\ trace[i].args[3] = 0
           /\ \E j \in Obtained(trace[i].name) : j < i

\* the map `name` is past the pinning match of load: it is being populated or
\* was inserted, or the load stopped in the match
PastPinning(name) ==
    \/ cur.live /\ cur.name = name /\ pc = "populate"
    \/ StepsOf("insert", name) # {}
    \/ StepsOf("update_elem", name) # {}
    \/ \E i \in FailedSteps : trace[i].name = name /\ trace[i].op \in {"create", "pin"}

\* C21: for a by-name-pinned map with a pin path, when the open of the pinned
\* map fails load creates the map next and, once created, pins it next under
\* <<pin path, name>>; a failed create or a failed pin is the last step of the
\* load, which returns that error and no Bpf. For a map with pinning None that
\* load takes through the pinning match there is exactly one create-map call,
\* and there is never an open-pinned-map or a pin-map call for it.
C21_CreateThenPin ==
    \A name \in DOMAIN input.maps :
        LET opens == StepsOf("from_pinned", name)
            creates == StepsOf("create", name)
            pinnings == StepsOf("pin", name)
            at == <<loader.map_pin_path, name>>
            stops(i) == /\ i = Len(trace)
                        /\ LoadFailed
                        /\ last.res = "MapError"
                        /\ ~bpf.present
        IN  IF input.maps[name].def.pinning = "ByName"
            THEN /\ \A i \in opens :
                        (~trace[i].ok /\ (i < Len(trace) \/ pc # "create"))
                            => /\ i + 1 \in creates
                               /\ PastPinning(name) /\ trace[i + 1].ok
                                      => /\ i + 2 \in pinnings
                                         /\ trace[i + 2].ok
                                                => /\ at \in DOMAIN pins
                                                   /\ name \in DOMAIN BuiltMaps
                                                          => pins[at] = fds[BuiltMaps[name].fd]
                 /\ \A i \in creates : i - 1 \in opens /\ ~trace[i - 1].ok
                 /\ \A i \in pinnings : i - 1 \in creates /\ trace[i - 1].ok
                 /\ \A i \in creates \cup pinnings : ~trace[i].ok => stops(i)
            ELSE /\ opens = {} /\ pinnings = {}
                 /\ Cardinality(creates) <= 1
                 /\ PastPinning(name) => Cardinality(creates) = 1
                 /\ \A i \in creates : ~trace[i].ok => stops(i)

\* the open of a by-name-pinned map failed, load created and pinned the map,
\* created a map with pinning None as well, and returned both
C21_Witness ==
    /\ LoadSucceeded
    /\ \E a, b \in DOMAIN bpf.maps :
           /\ input.maps[a].def.pinning = "ByName"
           /\ \E i \in StepsOf("from_pinned", a) :
                  /\ ~trace[i].ok
                  /\ trace[i + 1].op = "create" /\ trace[i + 1].ok
                  /\ trace[i + 2].op = "pin" /\ trace[i + 2].ok
           /\ pins[<<loader.map_pin_path, a>>] = fds[bpf.maps[a].fd]
           /\ input.maps[b].def.pinning = "None"
           /\ Cardinality(StepsOf("create", b)) = 1

----------------------------------------------------------------------------
(* Properties of the classification *)

\* the Program variant, and the sub-kind it carries, that each section kind
\* stands for
VariantOfSection ==
    [s \in Sections |->
        CASE s \in {"KProbe", "KRetProbe"} -> <<"KProbe", s>>
          [] s \in {"UProbe", "URetProbe"} -> <<"UProbe", s>>
          [] s = "SkSkbStreamParser" -> <<"SkSkb", "StreamParser">>
          [] s = "SkSkbStreamVerdict" -> <<"SkSkb", "StreamVerdict">>
          [] s = "CgroupSkbIngress" -> <<"CgroupSkb", "Ingress">>
          [] s = "CgroupSkbEgress" -> <<"CgroupSkb", "Egress">>
          [] OTHER -> <<s, "">>]

\* C22: the classification step of load gives every program of the object
\* exactly one Program, under its name, whose variant and sub-kind are those of
\* its section kind alone (KProbe and KRetProbe the KProbe variant with that
\* probe kind, UProbe and URetProbe likewise, the SkSkb sections SkSkb with
\* StreamParser or StreamVerdict, the CgroupSkb sections CgroupSkb with Ingress
\* or Egress); the step does no kernel I/O; every program of the Bpf it
\* returns is Unloaded, with no kernel handle and no expected attach type.
C22_Classification ==
    [][pc = "classify"
           => /\ pc' = "idle" /\ bpf'.present /\ last'.res = "Ok"
              /\ DOMAIN bpf'.programs = DOMAIN obj.programs
              /\ \A n \in DOMAIN obj.programs :
                     LET p == bpf'.programs[n]
                         s == obj.programs[n]
                     IN /\ s \in Sections
                        /\ <<p.variant, p.kind>> = VariantOfSection[s]
                        /\ p.data.section = s
                        /\ p.data.fd = NoneFd
                        /\ p.data.expected_attach_type = "None"
                        /\ ProgramState(p, attached') = "Unloaded"
              /\ \A n, m \in DOMAIN obj.programs :
                     obj.programs[n] = obj.programs[m]
                         => bpf'.programs[n] = bpf'.programs[m]
              /\ fds' = fds /\ pins' = pins
              /\ prog_fds' = prog_fds /\ attached' = attached
              /\ bpf'.maps = maps
              /\ Len(trace') = Len(trace) + 1
              /\ trace'[Len(trace')].op = "classify"]_vars

\* load returned a KProbe program with the return-probe kind and a CgroupSkb
\* program with the egress kind, both Unloaded, next to a map open in the
\* kernel
C22_Witness ==
    /\ LoadSucceeded
    /\ input.programs = ("p1" :> "KRetProbe") @@ ("p2" :> "CgroupSkbEgress")
    /\ bpf.programs["p1"].variant = "KProbe" /\ bpf.programs["p1"].kind = "KRetProbe"
    /\ bpf.programs["p2"].variant = "CgroupSkb" /\ bpf.programs["p2"].kind = "Egress"
    /\ \A n \in DOMAIN bpf.programs :
           /\ bpf.programs[n].data.fd = NoneFd
           /\ bpf.programs[n].data.expected_attach_type = "None"
    /\ \E n \in DOMAIN bpf.maps : bpf.maps[n].fd \in DOMAIN fds

----------------------------------------------------------------------------
(* Properties of the initial data of pinned maps *)

\* C23: the initial-data write is made also for a by-name-pinned map whose
\* handle load opened from an existing pin: when the map has initial data and
\* is not named ".bss", the step after the open issues the element update, and
\* when it succeeds the element at key 0 of the persisted map is the object's
\* initial data, whatever was there before.
C23_ReusedPinIsOverwritten ==
    [][LET name == cur.name
           at == <<loader.map_pin_path, name>>
           data == cur.map.obj.data
       IN (/\ pc = "populate"
           /\ \E j \in StepsOf("from_pinned", name) :
                  trace[j].ok /\ trace[j].fd = cur.map.fd
           /\ data # <<>> /\ name # ".bss")
              => /\ at \in DOMAIN pins /\ fds[cur.map.fd] = pins[at]
                 /\ \E i \in DOMAIN trace' \ DOMAIN trace :
                        /\ trace'[i].op = "update_elem" /\ trace'[i].name = name
                        /\ trace'[i].fd = cur.map.fd
                        /\ trace'[i].args = <<0, data, 0>>
                        /\ trace'[i].was = contents[pins[at]]
                        /\ trace'[i].ok => contents'[pins[at]] = data
                        /\ ~trace'[i].ok => contents' = contents]_vars

\* a second load opened the pinned map, found another element at key 0 and
\* replaced it by the object's initial data
C23_Witness ==
    /\ loads = 2
    /\ LoadSucceeded
    /\ \E name \in DOMAIN bpf.maps :
           /\ \E j \in StepsOf("from_pinned", name) : trace[j].ok
           /\ StepsOf("create", name) = {}
           /\ \E i \in StepsOf("update_elem", name) :
                  /\ trace[i].ok
                  /\ trace[i].was # NoValue
                  /\ trace[i].was # input.maps[name].data
           /\ contents[pins[<<loader.map_pin_path, name>>]] = input.maps[name].data

----------------------------------------------------------------------------
(* Properties of repeated SkSkb::attach *)

\* C24: SkSkb::attach writes nothing to the program, so no Attached state is
\* recorded and the program's kernel handle is never changed by attach; a
\* program that is already attached is not refused: every call with both
\* handles present issues exactly one attach syscall and ends in Ok or in the
\* error of that syscall, and every success gives the caller one more Link,
\* which carries the program's handle.
C24_AttachKeepsProgram ==
    [][AttachCalled
           => /\ bpf' = bpf
              /\ prog_fds' = prog_fds
              /\ (AttachProgram.data.fd # NoneFd /\ last'.fd # NoneFd)
                     => /\ Len(syscalls') = 1
                        /\ last'.res \in {"Ok", "SyscallError(bpf_prog_attach)"}
                        /\ last'.res = "Ok" <=> syscalls'[1].ok
              /\ last'.res = "Ok"
                     => /\ Len(links') = Len(links) + 1
                        /\ \A i \in DOMAIN links : links'[i] = links[i]
                        /\ links'[Len(links')].prog_fd = AttachProgram.data.fd
                        /\ links'[Len(links')].prog_fd = bpf'.programs[last'.name].data.fd
              /\ last'.res # "Ok" => links' = links]_vars

\* attach succeeded twice on the same loaded program: the caller has two Links
\* with the program's handle, and the program is as load left it
C24_Witness ==
    /\ last.op = "attach" /\ last.res = "Ok"
    /\ Len(links) = 2
    /\ links[1].prog_fd = links[2].prog_fd
    /\ links[2].prog_fd = bpf.programs[last.name].data.fd
    /\ bpf.programs[last.name].data.fd \in prog_fds
    /\ Len(syscalls) = 1

====
